---- MODULE Spec2Model ----
(***************************************************************************)
(* Model of app.py, the cost dashboard: the FRED fetcher, the WebKIT PDF   *)
(* extractor, the e-Stat extractor, the monthly master table, the Excel    *)
(* report summary and one render pass of the script.                       *)
(*                                                                         *)
(* Conventions.  A timestamp is the integer yyyymmdd.  A pandas Series is  *)
(* a sequence of records [date, value] in index order (the index may hold   *)
(* a label twice).  A nullable cell is <<>> (NaN) or <<v>>.  A call result  *)
(* is a record whose field "raised" names the exception, "" for a return.  *)
(***************************************************************************)
EXTENDS Integers, Sequences, FiniteSets, TLC

VARIABLES
    pc,                 \* position of the script / of the call under study
    response,           \* fetch_fred: the HTTP response [status, observations]
    fred,               \* fetch_fred: its outcome
    text,               \* fetch_webkit_index_from_pdf: the extracted lines
    webkit,             \* the freight series (module-level name webkit)
    json_data,          \* estat_series_from_statsdata: the payload
    industry_contains,  \* estat_series_from_statsdata: keyword argument
    item_contains,      \* estat_series_from_statsdata: keyword argument
    wage_mfg,           \* the wage series (module-level name wage_mfg)
    df_fred,            \* the primary table handed to build_monthly_master
    master,             \* outcome of build_monthly_master
    xlsx,               \* outcome of make_excel_report
    net,                \* render pass: what each remote source answers
    reached             \* render pass: the sections entered so far

vars == <<pc, response, fred, text, webkit, json_data, industry_contains,
          item_contains, wage_mfg, df_fred, master, xlsx, net, reached>>

----------------------------------------------------------------------------
(* Bounds of the model *)

MaxObs == 3
MaxLines == 2
MaxVals == 13
MaxRecords == 2
MaxMonth == 3

----------------------------------------------------------------------------
(* Helpers shared by the pandas operations *)

Min(a, b) == IF a <= b THEN a ELSE b

RECURSIVE SetToSortedSeq(_)
SetToSortedSeq(S) ==
    IF S = {} THEN <<>>
    ELSE LET m == CHOOSE x \in S : \A y \in S : x <= y
         IN  <<m>> \o SetToSortedSeq(S \ {m})

Range(s) == {s[i] : i \in 1..Len(s)}

IndexOf(s) == [i \in 1..Len(s) |-> s[i].date]

IsMonotonicIncreasing(s) ==
    \A i \in 1..Len(s) : \A j \in 1..Len(s) : i < j => s[i].date <= s[j].date

IsUnique(s) ==
    \A i \in 1..Len(s) : \A j \in 1..Len(s) : i # j => s[i].date # s[j].date

StrictlyIncreasing(s) ==
    \A i \in 1..Len(s) : \A j \in 1..Len(s) : i < j => s[i].date < s[j].date

ArgOrders(n) ==
    {p \in [1..n -> 1..n] : \A i \in 1..n : \A j \in 1..n : i # j => p[i] # p[j]}

\* sort_index(): an index that is already monotonic is returned as it is;
\* otherwise the rows are argsorted with the default kind="quicksort", which
\* is not stable: rows with equal labels may come out in any order.
SortIndex(s) ==
    IF IsMonotonicIncreasing(s) THEN {s}
    ELSE {[i \in 1..Len(s) |-> s[p[i]]] :
            p \in {q \in ArgOrders(Len(s)) :
                     IsMonotonicIncreasing([i \in 1..Len(s) |-> s[q[i]]])}}

\* Timestamp.to_period("M").to_timestamp(): the first day of the month.
MonthStart(d) == (d \div 100) * 100 + 1

\* strftime("%Y-%m") of a timestamp, as the integer yyyymm.
YearMonth(d) == d \div 100

----------------------------------------------------------------------------
(* fetch_fred *)

DateStrings == {"2024-01-01", "2024-01-15", "2024-02-01"}
ValueStrings == {"10", "20", "."}

\* pd.to_datetime on an ISO date string.
ToDatetime(str) ==
    CASE str = "2024-01-01" -> 20240101
      [] str = "2024-01-15" -> 20240115
      [] str = "2024-02-01" -> 20240201

\* pd.to_numeric(errors="coerce"): FRED writes a missing value as ".".
ToNumeric(str) ==
    CASE str = "10" -> <<10>>
      [] str = "20" -> <<20>>
      [] str = "150" -> <<150>>
      [] str = "9000" -> <<9000>>
      [] OTHER -> <<>>

Observations == [date : DateStrings, value : ValueStrings]

Batches == UNION {[1..n -> Observations] : n \in 0..MaxObs}

HttpStatuses == {200, 500}

\* df.dropna().set_index("date")["value"]
DropNa(df) ==
    LET kept == SelectSeq(df, LAMBDA r : r.value # <<>>)
    IN  [i \in 1..Len(kept) |-> [date |-> kept[i].date, value |-> kept[i].value[1]]]

\* The outcomes of fetch_fred on one response.
FetchFred(resp) ==
    IF resp.status # 200
    THEN {[raised |-> "HTTPError", s |-> <<>>]}
    ELSE IF Len(resp.observations) = 0
    THEN {[raised |-> "KeyError", s |-> <<>>]}
    ELSE LET obs == resp.observations
             df == [i \in 1..Len(obs) |->
                      [date |-> ToDatetime(obs[i].date),
                       value |-> ToNumeric(obs[i].value)]]
         IN  {[raised |-> "", s |-> x] : x \in SortIndex(DropNa(df))}

\* The values the names hold before the call that binds them.
NoCall == [raised |-> "", s |-> <<>>]
NoMaster == [raised |-> "", index_name |-> "", columns |-> <<>>, rows |-> <<>>]
NoReport == [raised |-> "", latest_month |-> <<>>, summary |-> <<>>, data |-> <<>>]

IdleFred == /\ response = [status |-> 200, observations |-> <<>>]
            /\ fred = NoCall
IdlePdf == /\ text = <<>>
           /\ webkit = NoCall
IdleEstat == /\ json_data = [keys |-> {}]
             /\ industry_contains = <<>>
             /\ item_contains = <<>>
             /\ wage_mfg = NoCall
IdleMaster == /\ df_fred = [index_name |-> "", rows |-> <<>>]
              /\ master = NoMaster
              /\ xlsx = NoReport
IdleRender == /\ net = <<>>
              /\ reached = {}

InitFred ==
    /\ pc = "fetch_fred"
    /\ response \in [status : HttpStatuses, observations : Batches]
    /\ fred = NoCall
    /\ IdlePdf /\ IdleEstat /\ IdleMaster /\ IdleRender

CallFetchFred ==
    /\ pc = "fetch_fred"
    /\ fred' \in FetchFred(response)
    /\ pc' = "returned"
    /\ UNCHANGED <<response, text, webkit, json_data, industry_contains,
                   item_contains, wage_mfg, df_fred, master, xlsx, net, reached>>

NextFred == CallFetchFred

SpecFred == InitFred /\ [][NextFred]_vars

\* C1: for every observation batch, the series fetch_fred returns has
\* strictly increasing date keys with no duplicate, holds no pair whose value
\* is not numeric, and keeps for each date only the value of the last
\* occurrence of that date in the batch.
C1_FredStrictlyIncreasingLastKept ==
    (pc = "returned" /\ fred.raised = "") =>
        LET obs == response.observations
            numeric == {i \in 1..Len(obs) : ToNumeric(obs[i].value) # <<>>}
            last == {i \in numeric :
                       \A j \in numeric : obs[j].date = obs[i].date => j <= i}
        IN  /\ StrictlyIncreasing(fred.s)
            /\ Range(fred.s) =
                 {[date |-> ToDatetime(obs[i].date),
                   value |-> ToNumeric(obs[i].value)[1]] : i \in last}

----------------------------------------------------------------------------
(* fetch_webkit_index_from_pdf *)

\* A line of the extracted text is a sequence of tokens: an era name, a run
\* of digits (ASCII or full-width), the word "nendo" (fiscal year) or other
\* text.  Era names are written in Latin letters: Heisei, Reiwa.
Tok(t, s, v, wide) == [t |-> t, s |-> s, v |-> v, wide |-> wide]
EraTok(era) == Tok("era", era, 0, FALSE)
NumTok(v, wide) == Tok("num", "", v, wide)
NendoTok == Tok("nendo", "", 0, FALSE)
TextTok == Tok("text", "", 0, FALSE)

Eras == {"Heisei", "Reiwa"}
EraYears == {1, 7, 31}
IndexBases == {100, 200}

\* "<era><n>nendo v1 ... vk", the k values being base+1 .. base+k.
FiscalLine(era, n, wide, k, base) ==
    <<EraTok(era), NumTok(n, wide), NendoTok>>
        \o [i \in 1..k |-> NumTok(base + i, FALSE)]

\* Lines that are not fiscal-year rows: a heading with a number in it, and
\* an era name with a year that is not followed by "nendo".
OtherLines ==
    {<<TextTok, NumTok(2024, FALSE), TextTok>>,
     <<EraTok("Reiwa"), NumTok(7, FALSE), TextTok, NumTok(12, FALSE)>>}

PdfLines ==
    {FiscalLine(era, n, wide, k, base) :
        era \in Eras, n \in EraYears, wide \in BOOLEAN,
        k \in 0..MaxVals, base \in IndexBases}
    \cup OtherLines

PdfTexts == UNION {[1..n -> PdfLines] : n \in 0..MaxLines}

\* re.match(r"^(Heisei|Reiwa).+nendo", ln)
IsTargetRow(ln) ==
    /\ Len(ln) >= 3
    /\ ln[1].t = "era"
    /\ \E j \in 3..Len(ln) : ln[j].t = "nendo"

\* re.findall(r"\d+", ln): every run of digits, full-width ones included,
\* the year number of the label among them.
FindAllDigits(ln) == SelectSeq(ln, LAMBDA tok : tok.t = "num")

\* re.search(r"(Heisei|Reiwa)\s*([0-9]+)\s*nendo", ln): <<>> for no match,
\* else <<i>>, the position of the era token.  [0-9] is ASCII only.
SearchLabel(ln) ==
    LET hits == {i \in 1..(Len(ln) - 2) :
                   /\ ln[i].t = "era"
                   /\ ln[i + 1].t = "num" /\ ~ln[i + 1].wide
                   /\ ln[i + 2].t = "nendo"}
    IN  IF hits = {} THEN <<>>
        ELSE <<CHOOSE i \in hits : \A j \in hits : i <= j>>

StartYear(era, n) == IF era = "Reiwa" THEN 2018 + n ELSE 1988 + n

\* pd.Timestamp(y, mo, 1)
Timestamp(y, mo) == y * 10000 + mo * 100 + 1

\* months = 4..12, 1, 2, 3 ; years = start_year * 9, (start_year + 1) * 3
FiscalMonth(start_year, i) ==
    IF i <= 9 THEN Timestamp(start_year, i + 3)
    ELSE Timestamp(start_year + 1, i - 9)

\* nums[-12:]
LastTwelve(nums) ==
    IF Len(nums) <= 12 THEN nums ELSE SubSeq(nums, Len(nums) - 11, Len(nums))

\* The data points one target row appends (lines 126-156).
RowPoints(ln) ==
    LET nums == FindAllDigits(ln)
        m == SearchLabel(ln)
    IN  IF Len(nums) < 12 THEN <<>>
        ELSE IF m = <<>> THEN <<>>
        ELSE LET start_year == StartYear(ln[m[1]].s, ln[m[1] + 1].v)
                 month_vals == LastTwelve(nums)
             IN  [i \in 1..Min(12, Len(month_vals)) |->
                    [date |-> FiscalMonth(start_year, i),
                     value |-> month_vals[i].v]]

RECURSIVE DataPoints(_)
DataPoints(rows) ==
    IF rows = <<>> THEN <<>>
    ELSE RowPoints(Head(rows)) \o DataPoints(Tail(rows))

\* pd.Series({d: v for d, v in data_points}).sort_index(): a dict keeps the
\* last value written under a key; the keys are then unique.
SeriesFromDict(points) ==
    LET keys == SetToSortedSeq({points[i].date : i \in 1..Len(points)})
        lastAt(d) == CHOOSE i \in 1..Len(points) :
                        /\ points[i].date = d
                        /\ \A j \in 1..Len(points) : points[j].date = d => j <= i
    IN  [k \in 1..Len(keys) |-> [date |-> keys[k], value |-> points[lastAt(keys[k])].value]]

\* s[~s.index.duplicated(keep="last")]
DropDuplicatedKeepLast(s) ==
    LET keep == {i \in 1..Len(s) : \A j \in 1..Len(s) : s[j].date = s[i].date => j <= i}
        idx == SetToSortedSeq(keep)
    IN  [k \in 1..Len(idx) |-> s[idx[k]]]

\* fetch_webkit_index_from_pdf after the download: text is the lines.
FetchWebkitIndexFromPdf(lines) ==
    LET target_rows == SelectSeq(lines, IsTargetRow)
        data_points == DataPoints(target_rows)
    IN  IF target_rows = <<>> THEN [raised |-> "", s |-> <<>>]
        ELSE IF data_points = <<>> THEN [raised |-> "", s |-> <<>>]
        ELSE [raised |-> "", s |-> DropDuplicatedKeepLast(SeriesFromDict(data_points))]

InitPdf ==
    /\ pc = "fetch_webkit"
    /\ text \in PdfTexts
    /\ webkit = NoCall
    /\ IdleFred /\ IdleEstat /\ IdleMaster /\ IdleRender

CallFetchWebkit ==
    /\ pc = "fetch_webkit"
    /\ webkit' = FetchWebkitIndexFromPdf(text)
    /\ pc' = "returned"
    /\ UNCHANGED <<response, fred, text, json_data, industry_contains,
                   item_contains, wage_mfg, df_fred, master, xlsx, net, reached>>

NextPdf == CallFetchWebkit

SpecPdf == InitPdf /\ [][NextPdf]_vars

\* The values that follow the label of a fiscal-year row.
Trailing(ln) == SubSeq(ln, 4, Len(ln))

\* A row written <era><ASCII n>nendo and then numbers only.
IsFiscalYearRow(ln) ==
    /\ Len(ln) >= 3
    /\ ln[1].t = "era" /\ ln[2].t = "num" /\ ln[3].t = "nendo"
    /\ \A j \in 4..Len(ln) : ln[j].t = "num"

RowStartYear(ln) == StartYear(ln[1].s, ln[2].v)

\* The points of series s that fall in the fiscal year starting in April y.
InFiscalYear(s, y) ==
    SelectSeq(s, LAMBDA p : p.date >= Timestamp(y, 4) /\ p.date <= Timestamp(y + 1, 3))

\* No other line of the text is a row of the same fiscal year.
OnlyRowOfItsYear(i) ==
    \A j \in 1..Len(text) :
        (j # i /\ IsFiscalYearRow(text[j])) => RowStartYear(text[j]) # RowStartYear(text[i])

\* C3: a fiscal-year row followed by exactly k numeric tokens, 1 <= k < 12,
\* yields exactly k monthly points, the k tokens in order on the consecutive
\* months from April of the start year, and none for the other 12-k months.
C3_ShortRowEmitsItsValues ==
    pc = "returned" =>
        \A i \in 1..Len(text) :
            LET ln == text[i]
                k == Len(ln) - 3
            IN  (IsFiscalYearRow(ln) /\ ~ln[2].wide /\ k >= 1 /\ k < 12
                   /\ OnlyRowOfItsYear(i)) =>
                InFiscalYear(webkit.s, RowStartYear(ln)) =
                    [j \in 1..k |-> [date |-> FiscalMonth(RowStartYear(ln), j),
                                     value |-> Trailing(ln)[j].v]]

\* C9: for every fiscal-year row that yields points, every value emitted is
\* one of the numeric tokens that follow the label, never the year number of
\* the label, and April carries a token that follows the label.
C9_YearNumberNeverEmitted ==
    pc = "returned" =>
        \A i \in 1..Len(text) :
            LET ln == text[i]
                pts == InFiscalYear(webkit.s, RowStartYear(ln))
                following == {Trailing(ln)[j].v : j \in 1..(Len(ln) - 3)}
            IN  (IsFiscalYearRow(ln) /\ OnlyRowOfItsYear(i) /\ pts # <<>>) =>
                /\ \A j \in 1..Len(pts) : pts[j].value \in following
                /\ pts[1].date = Timestamp(RowStartYear(ln), 4)
                /\ \E j \in 1..(Len(ln) - 3) :
                      /\ j + Len(pts) - 1 <= Len(ln) - 3
                      /\ pts[1].value = Trailing(ln)[j].v
                      /\ \A q \in 1..Len(pts) : pts[q].value = Trailing(ln)[j + q - 1].v

----------------------------------------------------------------------------
(* estat_series_from_statsdata *)

\* A JSON object is a record with the field "keys", the set of keys it
\* holds, and one field per key.  None is Python's None.
None == [null |-> TRUE]
EmptyDict == [keys |-> {}]

\* d.get(key, default)
Get(d, key, default) == IF key \in d.keys THEN d[key] ELSE default

\* The test "x is None" in the place of "not x": an empty dict passes it.
IsNoneOnly(x) == x = None

\* "not x" for a value that is None or a dict
IsFalsy(x) == x = None \/ x.keys = {}

\* A value that json gives either as one dict or as a list of dicts:
\* "if isinstance(x, dict): x = [x]".
OneDict(d) == [isdict |-> TRUE, items |-> <<d>>]
ListOf(ds) == [isdict |-> FALSE, items |-> ds]
AsList(x) == x.items

\* Labels and filter strings are sequences of words; "a in b" is
\* contiguous containment, and the empty string is in every string.
Contains(sub, name) ==
    \E i \in 0..(Len(name) - Len(sub)) : SubSeq(name, i + 1, i + Len(sub)) = sub

Manufacturing == <<"seizogyo">>
AllIndustries == <<"chosa", "sangyo", "kei">>
CashEarnings == <<"genkin", "kyuyo", "sogaku">>
ScheduledEarnings == <<"kimatte", "shikyu", "kyuyo">>

Class(code, name) == [code |-> code, name |-> name]
ClassObj(id, cls) == [id |-> id, CLASS |-> cls]

\* The classification axes of a table: industries on cat01, items on cat02.
ClassObjs ==
    {<<ClassObj("cat01", ListOf(<<Class("TL", AllIndustries), Class("E", Manufacturing)>>)),
       ClassObj("cat02", ListOf(<<Class("1", CashEarnings), Class("2", ScheduledEarnings)>>))>>,
     <<ClassObj("cat01", OneDict(Class("TL", AllIndustries))),
       ClassObj("cat02", ListOf(<<Class("1", CashEarnings), Class("2", ScheduledEarnings)>>))>>,
     <<ClassObj("cat01", ListOf(<<Class("TL", AllIndustries), Class("E", Manufacturing)>>)),
       ClassObj("cat02", OneDict(Class("E", CashEarnings)))>>}

IndustryFilters == {Manufacturing, <<"kensetsu">>, <<>>}
ItemFilters == {CashEarnings, <<"shoyo">>, <<>>}

\* An observation record: "@time" and "$" as <<>> (key absent) or <<string>>,
\* and the values of its "@cat.." keys in key order.
Value(time, val, cats) == [time |-> time, val |-> val, cats |-> cats]

CatCodes == {<<"E", "1">>, <<"TL", "1">>, <<"E", "2">>, <<"TL", "2">>}

Values ==
    {Value(<<t>>, <<v>>, c) : t \in {"202501", "2025-02"}, v \in {"300", "310"}, c \in CatCodes}
    \cup {Value(<<>>, <<"300">>, <<"E", "1">>),
          Value(<<"202501">>, <<>>, <<"E", "1">>),
          Value(<<"202501">>, <<"-">>, <<"E", "1">>),
          Value(<<"R7.1">>, <<"300">>, <<"E", "1">>)}

ValueLists == UNION {[1..n -> Values] : n \in 0..MaxRecords}

StatisticalData(class_obj, values) ==
    [keys |-> {"CLASS_INF", "DATA_INF"},
     CLASS_INF |-> [keys |-> {"CLASS_OBJ"}, CLASS_OBJ |-> class_obj],
     DATA_INF |-> [keys |-> {"VALUE"}, VALUE |-> values]]

WithRoot(stat) ==
    [keys |-> {"GET_STATS_DATA"},
     GET_STATS_DATA |-> [keys |-> {"RESULT", "STATISTICAL_DATA"},
                         RESULT |-> EmptyDict, STATISTICAL_DATA |-> stat]]

\* Payloads whose statistical-data root is missing: no GET_STATS_DATA key,
\* no STATISTICAL_DATA key under it, or an empty value there.
RootlessPayloads ==
    {EmptyDict,
     [keys |-> {"RESULT"}, RESULT |-> EmptyDict],
     [keys |-> {"GET_STATS_DATA"}, GET_STATS_DATA |-> EmptyDict],
     [keys |-> {"GET_STATS_DATA"},
      GET_STATS_DATA |-> [keys |-> {"RESULT"}, RESULT |-> EmptyDict]],
     WithRoot(None),
     WithRoot(EmptyDict)}

\* A root that holds only the API's error report.
ErrorOnlyPayload == WithRoot([keys |-> {"RESULT_INF"}, RESULT_INF |-> EmptyDict])

FullPayloads ==
    {WithRoot(StatisticalData(co, ListOf(vs))) : co \in ClassObjs, vs \in ValueLists}
    \cup {WithRoot(StatisticalData(co, OneDict(v))) : co \in ClassObjs, v \in Values}

Payloads == RootlessPayloads \cup {ErrorOnlyPayload} \cup FullPayloads

\* estat_build_class_maps, flattened to the (axis, code, name) triples of
\* the dict of dicts: a later entry with the same key replaces an earlier.
EstatBuildClassMaps(root) ==
    LET class_obj == root.CLASS_INF.CLASS_OBJ
        lastObj(id) == CHOOSE i \in 1..Len(class_obj) :
                          /\ class_obj[i].id = id
                          /\ \A j \in 1..Len(class_obj) : class_obj[j].id = id => j <= i
        ids == {class_obj[i].id : i \in 1..Len(class_obj)}
        to_map(obj) ==
            LET cls == AsList(obj.CLASS)
            IN  {[code |-> cls[i].code, name |-> cls[i].name] :
                   i \in {k \in 1..Len(cls) :
                            \A j \in 1..Len(cls) : cls[j].code = cls[k].code => j <= k}}
    IN  UNION {{[dim_id |-> id, code |-> c.code, name |-> c.name] :
                  c \in to_map(class_obj[lastObj(id)])} : id \in ids}

\* float(val)
ToFloat(str) ==
    CASE str = "300" -> <<300>>
      [] str = "310" -> <<310>>
      [] OTHER -> <<>>

\* datetime.strptime over "%Y%m", "%Y-%m", "%Y-%m-%d", then pd.to_datetime:
\* <<year, month>>, or <<>> when every attempt raises.
ParseTime(t_str) ==
    CASE t_str = "202501" -> <<2025, 1>>
      [] t_str = "2025-02" -> <<2025, 2>>
      [] OTHER -> <<>>

\* The codes of every axis whose label contains the substring (lines 236-244).
CodesContaining(class_maps, sub) ==
    {c.code : c \in {x \in class_maps : Contains(sub, x.name)}}

\* The positions of the records that pass lines 247-263.
AcceptedRecords(values, industry_codes, item_codes) ==
    {i \in 1..Len(values) :
        LET v == values[i]
            dim_codes == v.cats
        IN  /\ v.time # <<>> /\ v.val # <<>>
            /\ ~(industry_codes # {}
                 /\ ~\E k \in 1..Len(dim_codes) : dim_codes[k] \in industry_codes)
            /\ ~(item_codes # {}
                 /\ ~\E k \in 1..Len(dim_codes) : dim_codes[k] \in item_codes)
            /\ ToFloat(v.val[1]) # <<>>}

\* The outcomes of estat_series_from_statsdata: rows names the accepted
\* records, s is the returned series.
EstatSeriesFromStatsdata(data, industry, item) ==
    LET gsd == Get(data, "GET_STATS_DATA", EmptyDict)
        stat == Get(gsd, "STATISTICAL_DATA", None)
    IN  IF IsFalsy(stat) THEN {[raised |-> "", s |-> <<>>, rows |-> {}]}
        ELSE IF "CLASS_INF" \notin stat.keys \/ "DATA_INF" \notin stat.keys
        THEN {[raised |-> "KeyError", s |-> <<>>, rows |-> {}]}
        ELSE LET class_maps == EstatBuildClassMaps(stat)
                 values == AsList(stat.DATA_INF.VALUE)
                 industry_codes == CodesContaining(class_maps, industry)
                 item_codes == CodesContaining(class_maps, item)
                 rows == AcceptedRecords(values, industry_codes, item_codes)
                 parsed == SelectSeq(SetToSortedSeq(rows),
                                     LAMBDA i : ParseTime(values[i].time[1]) # <<>>)
                 series == [k \in 1..Len(parsed) |->
                              LET dt == ParseTime(values[parsed[k]].time[1])
                              IN  [date |-> Timestamp(dt[1], dt[2]),
                                   value |-> ToFloat(values[parsed[k]].val[1])[1]]]
             IN  IF rows = {} THEN {[raised |-> "", s |-> <<>>, rows |-> {}]}
                 ELSE {[raised |-> "", s |-> DropDuplicatedKeepLast(x), rows |-> rows] :
                         x \in SortIndex(series)}

InitEstat ==
    /\ pc = "estat_series"
    /\ json_data \in Payloads
    /\ industry_contains \in IndustryFilters
    /\ item_contains \in ItemFilters
    /\ wage_mfg = NoCall
    /\ IdleFred /\ IdlePdf /\ IdleMaster /\ IdleRender

CallEstatSeries ==
    /\ pc = "estat_series"
    /\ wage_mfg' \in EstatSeriesFromStatsdata(json_data, industry_contains, item_contains)
    /\ pc' = "returned"
    /\ UNCHANGED <<response, fred, text, webkit, json_data, industry_contains,
                   item_contains, df_fred, master, xlsx, net, reached>>

NextEstat == CallEstatSeries

SpecEstat == InitEstat /\ [][NextEstat]_vars

\* C5: for every payload whose statistical-data root is missing (no
\* GET_STATS_DATA key, no STATISTICAL_DATA key under it, or an empty value
\* there), estat_series_from_statsdata returns an empty series and does not
\* raise, whatever the two filter strings are.
C5_RootlessPayloadGivesEmptySeries ==
    (pc = "returned" /\ json_data \in RootlessPayloads) =>
        /\ wage_mfg.raised = ""
        /\ wage_mfg.s = <<>>

\* C5's case: the call has returned on a payload whose root is an empty
\* dict, with both filters supplied.
C5_Witness ==
    /\ pc = "returned"
    /\ json_data = WithRoot(EmptyDict)
    /\ industry_contains = Manufacturing
    /\ item_contains = CashEarnings
    /\ wage_mfg.s = <<>>

\* The statistical data of a payload that has it.
StatOf(data) == data.GET_STATS_DATA.STATISTICAL_DATA

HasStatisticalData(data) ==
    /\ "GET_STATS_DATA" \in data.keys
    /\ "STATISTICAL_DATA" \in data.GET_STATS_DATA.keys
    /\ StatOf(data) # None
    /\ {"CLASS_INF", "DATA_INF"} \subseteq StatOf(data).keys

\* C8: a record that carries a time label and a (numeric) value is accepted
\* if and only if (the industry filter is absent or one of the record's
\* category codes is in the industry code set) and (the same for the item
\* filter); when a filter is supplied and its code set is empty, no record
\* is accepted and the result is the empty series.
C8_AcceptedIffFiltersMatch ==
    (pc = "returned" /\ HasStatisticalData(json_data)) =>
        LET values == AsList(StatOf(json_data).DATA_INF.VALUE)
            class_maps == EstatBuildClassMaps(StatOf(json_data))
            industry_codes == CodesContaining(class_maps, industry_contains)
            item_codes == CodesContaining(class_maps, item_contains)
            matches(i, filter, codes) ==
                \/ filter = <<>>
                \/ \E k \in 1..Len(values[i].cats) : values[i].cats[k] \in codes
        IN  /\ \A i \in 1..Len(values) :
                  (/\ values[i].time # <<>>
                   /\ values[i].val # <<>>
                   /\ ToFloat(values[i].val[1]) # <<>>) =>
                  (i \in wage_mfg.rows <=>
                      /\ matches(i, industry_contains, industry_codes)
                      /\ matches(i, item_contains, item_codes))
            /\ ((industry_contains # <<>> /\ industry_codes = {})
                \/ (item_contains # <<>> /\ item_codes = {})) =>
                  (wage_mfg.rows = {} /\ wage_mfg.s = <<>>)

----------------------------------------------------------------------------
(* build_monthly_master and make_excel_report *)

Days == {1, 15}
Dates == {2024 * 10000 + m * 100 + d : m \in 1..MaxMonth, d \in Days}
MonthStarts == {Timestamp(2024, m) : m \in 1..MaxMonth}

PrimaryColumns == <<"copper_jpy_kg", "aluminum_jpy_kg">>

\* The quotes the inputs carry: a value per month that goes up and down,
\* and a little more on a later day of the month.
Quotes == <<100, 110, 105>>
Quote(base, d) ==
    base + Quotes[(((((d \div 100) % 100) - 1) % 3) + 1)] + (((d % 100) \div 15) * 2)

\* The series over the dates S, in ascending order.
SeriesOver(S, base) ==
    LET idx == SetToSortedSeq(S)
    IN  [k \in 1..Len(idx) |-> [date |-> idx[k], value |-> Quote(base, idx[k])]]

\* A primary table: index_name is the name of its index ("" for none; the
\* index that lines 81 and 324 build is named "date"), rows in index order.
PrimaryOver(S, name) ==
    LET idx == SetToSortedSeq(S)
    IN  [index_name |-> name,
         rows |-> [k \in 1..Len(idx) |->
                     [date |-> idx[k],
                      cells |-> [c \in Range(PrimaryColumns) |->
                                   IF c = "copper_jpy_kg" THEN <<Quote(0, idx[k])>>
                                   ELSE <<Quote(200, idx[k])>>]]]]

IndexNames == {"date", ""}

PrimaryTables == {PrimaryOver(S, name) : S \in (SUBSET Dates) \ {{}}, name \in IndexNames}

\* An auxiliary argument: None, or a Series (the extractors return series
\* on month starts, sorted and without duplicates; possibly empty).
NoneArg == [isnone |-> TRUE, s |-> <<>>]
SeriesArg(s) == [isnone |-> FALSE, s |-> s]
AuxArgs(base) == {NoneArg} \cup {SeriesArg(SeriesOver(S, base)) : S \in SUBSET MonthStarts}

\* "x is not None and not x.empty"
IsUsable(arg) == ~arg.isnone /\ arg.s # <<>>

\* s.index = pd.to_datetime(s.index).to_period("M").to_timestamp("MS")
NormalizeIndex(s) == [i \in 1..Len(s) |-> [s[i] EXCEPT !.date = MonthStart(s[i].date)]]

\* out[col] = s: the series is aligned on the frame's index.  An index
\* equal to the frame's is taken as it is; otherwise the series is
\* reindexed, which raises on a series index with duplicates, and a frame
\* label the series lacks gets NaN.  The frame's labels alone remain.
SetItem(out, col, s) ==
    IF IndexOf(s) = IndexOf(out.rows)
    THEN [out EXCEPT !.columns = Append(out.columns, col),
                     !.rows = [i \in 1..Len(out.rows) |->
                                 [date |-> out.rows[i].date,
                                  cells |-> [c \in DOMAIN out.rows[i].cells \cup {col} |->
                                               IF c = col THEN <<s[i].value>>
                                               ELSE out.rows[i].cells[c]]]]]
    ELSE IF ~IsUnique(s)
    THEN [out EXCEPT !.raised = "ValueError"]
    ELSE [out EXCEPT !.columns = Append(out.columns, col),
                     !.rows = [i \in 1..Len(out.rows) |->
                                 [date |-> out.rows[i].date,
                                  cells |-> [c \in DOMAIN out.rows[i].cells \cup {col} |->
                                               IF c # col THEN out.rows[i].cells[c]
                                               ELSE IF \E k \in 1..Len(s) : s[k].date = out.rows[i].date
                                               THEN <<s[CHOOSE k \in 1..Len(s) :
                                                          s[k].date = out.rows[i].date].value>>
                                               ELSE <<>>]]]]

\* The outcomes of build_monthly_master.
BuildMonthlyMaster(df, wk, wage) ==
    LET out0 == [raised |-> "", index_name |-> df.index_name,
                 columns |-> PrimaryColumns, rows |-> NormalizeIndex(df.rows)]
        out1 == IF IsUsable(wk)
                THEN SetItem(out0, "webkit_freight_index", NormalizeIndex(wk.s))
                ELSE out0
        out2 == IF out1.raised # "" THEN out1
                ELSE IF IsUsable(wage)
                THEN SetItem(out1, "wage_mfg", NormalizeIndex(wage.s))
                ELSE out1
    IN  IF out2.raised # "" THEN {out2}
        ELSE {[out2 EXCEPT !.rows = x] : x \in SortIndex(out2.rows)}

\* master[col].dropna(): the values of the column that are not NaN.
ColumnDropNa(m, col) ==
    LET kept == SelectSeq(m.rows, LAMBDA r : r.cells[col] # <<>>)
    IN  [i \in 1..Len(kept) |-> kept[i].cells[col][1]]

\* s.iloc[0] in the place of s.iloc[-2].
PreviousIsFirst(s) == IF Len(s) >= 2 THEN <<s[1]>> ELSE <<>>

\* v_prev = float(s.iloc[-2]) if len(s) >= 2 else None
Previous(s) == IF Len(s) >= 2 THEN <<s[Len(s) - 1]>> ELSE <<>>

\* The summary rows (lines 501-509): columns without a value are skipped.
SummaryRows(m) ==
    LET cols == SelectSeq(m.columns, LAMBDA c : ColumnDropNa(m, c) # <<>>)
    IN  [k \in 1..Len(cols) |->
           LET s == ColumnDropNa(m, cols[k])
               v_now == s[Len(s)]
               v_prev == Previous(s)
           IN  [name |-> cols[k], v_now |-> v_now,
                delta |-> IF v_prev # <<>> THEN <<v_now - v_prev[1]>> ELSE <<>>]]

\* master.dropna(how="all")
DropAllNaRows(m) ==
    SelectSeq(m.rows, LAMBDA r : \E c \in DOMAIN r.cells : r.cells[c] # <<>>)

\* export.reset_index().rename(columns={"index": "month"}): the name of
\* the column the index becomes.
ResetIndexColumn(m) ==
    LET col == IF m.index_name = "" THEN "index" ELSE m.index_name
    IN  IF col = "index" THEN "month" ELSE col

\* make_excel_report: summary is what has been written on the Summary sheet
\* when the call returns or raises.
MakeExcelReport(m) ==
    LET seen == DropAllNaRows(m)
    IN  IF seen = <<>>
        THEN [raised |-> "IndexError", latest_month |-> <<>>, summary |-> <<>>, data |-> <<>>]
        ELSE IF ResetIndexColumn(m) # "month"
        THEN [raised |-> "KeyError",
              latest_month |-> <<YearMonth(seen[Len(seen)].date)>>,
              summary |-> SummaryRows(m), data |-> <<>>]
        ELSE [raised |-> "",
              latest_month |-> <<YearMonth(seen[Len(seen)].date)>>,
              summary |-> SummaryRows(m),
              data |-> [i \in 1..Len(m.rows) |->
                          [month |-> YearMonth(m.rows[i].date), cells |-> m.rows[i].cells]]]

InitMaster ==
    /\ pc = "build_monthly_master"
    /\ df_fred \in PrimaryTables
    /\ webkit \in AuxArgs(50)
    /\ wage_mfg \in AuxArgs(300)
    /\ master = NoMaster
    /\ xlsx = NoReport
    /\ response = [status |-> 200, observations |-> <<>>]
    /\ fred = NoCall
    /\ text = <<>>
    /\ json_data = [keys |-> {}]
    /\ industry_contains = <<>>
    /\ item_contains = <<>>
    /\ IdleRender

CallBuildMonthlyMaster ==
    /\ pc = "build_monthly_master"
    /\ master' \in BuildMonthlyMaster(df_fred, webkit, wage_mfg)
    /\ pc' = "make_excel_report"
    /\ UNCHANGED <<response, fred, text, webkit, json_data, industry_contains,
                   item_contains, wage_mfg, df_fred, xlsx, net, reached>>

\* An exception of build_monthly_master leaves line 576 before line 578.
CallMakeExcelReport ==
    /\ pc = "make_excel_report"
    /\ master.raised = ""
    /\ xlsx' = MakeExcelReport(master)
    /\ pc' = "reported"
    /\ UNCHANGED <<response, fred, text, webkit, json_data, industry_contains,
                   item_contains, wage_mfg, df_fred, master, net, reached>>

NextMaster == CallBuildMonthlyMaster \/ CallMakeExcelReport

SpecMaster == InitMaster /\ [][NextMaster]_vars

\* The month starts of the dates of a series or of a table's rows.
MonthsOf(s) == {MonthStart(s[i].date) : i \in 1..Len(s)}

\* C2: build_monthly_master is an outer join: with a non-empty freight and
\* a non-empty wage series, the row months of the master table are the
\* union of the month-normalized dates of the three inputs (a month of an
\* auxiliary series alone gets a row), in ascending order.
C2_MasterIsOuterJoin ==
    (pc # "build_monthly_master" /\ IsUsable(webkit) /\ IsUsable(wage_mfg)) =>
        /\ master.raised = ""
        /\ {master.rows[i].date : i \in 1..Len(master.rows)} =
              MonthsOf(df_fred.rows) \cup MonthsOf(webkit.s) \cup MonthsOf(wage_mfg.s)
        /\ IsMonotonicIncreasing(master.rows)

\* C7: whatever days of the month the input dates fall on, the master
\* table has a strictly increasing index, one row per calendar month at
\* most, and the call completes without error.
C7_MasterIndexStrictlyIncreasing ==
    pc # "build_monthly_master" =>
        /\ master.raised = ""
        /\ StrictlyIncreasing(master.rows)

\* C10: with a freight and/or wage series that is empty or None, the master
\* table has the rows and primary values of the month-normalized primary
\* table and lacks the corresponding auxiliary column, and
\* make_excel_report on it completes without raising.
C10_EmptyAuxiliaryIsValidInput ==
    (pc # "build_monthly_master" /\ (~IsUsable(webkit) \/ ~IsUsable(wage_mfg))) =>
        /\ master.raised = ""
        /\ Len(master.rows) = Len(df_fred.rows)
        /\ \A i \in 1..Len(master.rows) :
              /\ master.rows[i].date = MonthStart(df_fred.rows[i].date)
              /\ \A c \in Range(PrimaryColumns) :
                    master.rows[i].cells[c] = df_fred.rows[i].cells[c]
        /\ ~IsUsable(webkit) => "webkit_freight_index" \notin Range(master.columns)
        /\ ~IsUsable(wage_mfg) => "wage_mfg" \notin Range(master.columns)
        /\ pc = "reported" => xlsx.raised = ""

\* The rows of the master table that hold a value in column c.
Observed(c) == {i \in 1..Len(master.rows) : master.rows[i].cells[c] # <<>>}

Latest(P) == CHOOSE i \in P : \A j \in P : j <= i

\* C6: in the report summary, for each column of the master table by
\* itself: the latest value is the column's last non-null value, the delta
\* is the latest minus the non-null value before it, the delta is null when
\* the column has one non-null value, and a column without any has no
\* summary row.
C6_SummaryPerColumn ==
    (pc = "reported" /\ xlsx.raised # "IndexError") =>
        /\ \A c \in Range(master.columns) :
              LET P == Observed(c)
                  named == {k \in 1..Len(xlsx.summary) : xlsx.summary[k].name = c}
              IN  IF P = {} THEN named = {}
                  ELSE /\ Cardinality(named) = 1
                       /\ \A k \in named :
                            LET v == master.rows[Latest(P)].cells[c][1]
                            IN  /\ xlsx.summary[k].v_now = v
                                /\ xlsx.summary[k].delta =
                                     IF Cardinality(P) = 1 THEN <<>>
                                     ELSE <<v - master.rows[Latest(P \ {Latest(P)})].cells[c][1]>>
        /\ \A k \in 1..Len(xlsx.summary) : xlsx.summary[k].name \in Range(master.columns)

\* C6's case: a report whose summary has a column with a single value
\* (null delta) summarized at an earlier month than a column with a falling
\* value (delta -5), and a column without any value left out.
C6_Witness ==
    /\ pc = "reported"
    /\ xlsx.raised = ""
    /\ \E c \in Range(master.columns) : Observed(c) = {}
    /\ \E k \in 1..Len(xlsx.summary) :
          /\ xlsx.summary[k].delta = <<>>
          /\ \E q \in 1..Len(xlsx.summary) :
                /\ xlsx.summary[q].delta = <<0 - 5>>
                /\ Latest(Observed(xlsx.summary[k].name)) < Latest(Observed(xlsx.summary[q].name))

----------------------------------------------------------------------------
(* One render pass of the script (module level, top to bottom) *)

Obs(d, v) == [date |-> d, value |-> v]

\* What the remote sources answer in one pass.
PriceObservations == <<Obs("2024-01-01", "9000"), Obs("2024-02-01", "9000")>>
FxObservations ==
    {<<Obs("2024-01-01", "150"), Obs("2024-02-01", "150")>>,
     <<Obs("2024-01-01", "150"), Obs("2024-02-01", ".")>>}
PdfTextsServed == {<<>>, <<FiscalLine("Reiwa", 5, FALSE, 12, 100)>>}
PayloadsServed ==
    {WithRoot(EmptyDict),
     WithRoot(StatisticalData(
        <<ClassObj("cat01", ListOf(<<Class("TL", AllIndustries), Class("E", Manufacturing)>>)),
          ClassObj("cat02", ListOf(<<Class("1", CashEarnings), Class("2", ScheduledEarnings)>>))>>,
        ListOf(<<Value(<<"202501">>, <<"300">>, <<"E", "1">>)>>)))}

Answers ==
    [FRED_API_KEY : BOOLEAN, ESTAT_APP_ID : BOOLEAN,
     copper : HttpStatuses, aluminum : HttpStatuses, usdjpy : HttpStatuses,
     fx : FxObservations,
     listing : {"ok", "http_error", "no_links"},
     pdf : HttpStatuses,
     stats_list : {"ok", "http_error", "no_tables"},
     stats_data : HttpStatuses]

Sections == {"fred", "webkit", "estat", "export"}

\* A module-level name that is not bound yet (a read raises NameError).
Undefined == [defined |-> FALSE, s |-> <<>>]
Defined(s) == [defined |-> TRUE, s |-> s]

\* pd.concat([copper, aluminum, usdjpy], axis=1, join="inner") and the two
\* converted columns (lines 324-327), for series with unique indexes; the
\* index keeps the name "date" that set_index gave the three series.
PriceTable(copper, aluminum, usdjpy) ==
    LET at(s, d) == s[CHOOSE i \in 1..Len(s) : s[i].date = d].value
        common == {d \in Range(IndexOf(copper)) :
                     d \in Range(IndexOf(aluminum)) /\ d \in Range(IndexOf(usdjpy))}
        idx == SetToSortedSeq(common)
    IN  [index_name |-> "date",
         rows |-> [k \in 1..Len(idx) |->
                     [date |-> idx[k],
                      cells |-> [c \in Range(PrimaryColumns) |->
                                   IF c = "copper_jpy_kg"
                                   THEN <<(at(copper, idx[k]) * at(usdjpy, idx[k])) \div 1000>>
                                   ELSE <<(at(aluminum, idx[k]) * at(usdjpy, idx[k])) \div 1000>>]]]]

InitRender ==
    /\ pc = "secrets"
    /\ net \in Answers
    /\ reached = {}
    /\ response = [status |-> 200, observations |-> <<>>]
    /\ fred = NoCall
    /\ text \in PdfTextsServed
    /\ webkit = Undefined
    /\ json_data \in PayloadsServed
    /\ industry_contains = Manufacturing
    /\ item_contains = CashEarnings
    /\ wage_mfg = Undefined
    /\ IdleMaster

\* Lines 52-59: without FRED_API_KEY the script stops (st.stop()).
Secrets ==
    /\ pc = "secrets"
    /\ pc' = IF net.FRED_API_KEY THEN "fred" ELSE "stopped"
    /\ UNCHANGED <<response, fred, text, webkit, json_data, industry_contains,
                   item_contains, wage_mfg, df_fred, master, xlsx, net, reached>>

\* Lines 320-368: the three fetches and the price table stand at module
\* level outside any try: an exception of fetch_fred ends the pass, and so
\* does the IndexError of df.index[-1] on an empty table.
FredSection ==
    /\ pc = "fred"
    /\ reached' = reached \cup {"fred"}
    /\ \E c \in FetchFred([status |-> net.copper, observations |-> PriceObservations]) :
       \E a \in FetchFred([status |-> net.aluminum, observations |-> PriceObservations]) :
       \E u \in FetchFred([status |-> net.usdjpy, observations |-> net.fx]) :
          IF c.raised # "" THEN fred' = c /\ pc' = "aborted" /\ df_fred' = df_fred
          ELSE IF a.raised # "" THEN fred' = a /\ pc' = "aborted" /\ df_fred' = df_fred
          ELSE IF u.raised # "" THEN fred' = u /\ pc' = "aborted" /\ df_fred' = df_fred
          ELSE LET df == PriceTable(c.s, a.s, u.s)
               IN  /\ df_fred' = df
                   /\ fred' = IF df.rows = <<>> THEN [raised |-> "IndexError", s |-> <<>>] ELSE u
                   /\ pc' = IF df.rows = <<>> THEN "aborted" ELSE "webkit"
    /\ UNCHANGED <<response, text, webkit, json_data, industry_contains,
                   item_contains, wage_mfg, master, xlsx, net>>

\* Lines 377-388: discovery and download inside try/except Exception; on an
\* exception the name webkit stays unbound.
WebkitSection ==
    /\ pc = "webkit"
    /\ reached' = reached \cup {"webkit"}
    /\ webkit' = IF net.listing = "ok" /\ net.pdf = 200
                 THEN Defined(FetchWebkitIndexFromPdf(text).s)
                 ELSE webkit
    /\ pc' = "estat"
    /\ UNCHANGED <<response, fred, text, json_data, industry_contains,
                   item_contains, wage_mfg, df_fred, master, xlsx, net>>

\* Lines 397-435: skipped without ESTAT_APP_ID; else search, download and
\* extraction inside try/except Exception.
EstatSection ==
    /\ pc = "estat"
    /\ reached' = reached \cup {"estat"}
    /\ IF net.ESTAT_APP_ID /\ net.stats_list = "ok" /\ net.stats_data = 200
       THEN \E r \in EstatSeriesFromStatsdata(json_data, industry_contains, item_contains) :
               wage_mfg' = IF r.raised = "" THEN Defined(r.s) ELSE wage_mfg
       ELSE wage_mfg' = wage_mfg
    /\ pc' = "export"
    /\ UNCHANGED <<response, fred, text, webkit, json_data, industry_contains,
                   item_contains, df_fred, master, xlsx, net>>

\* Lines 566-574: an unbound name becomes an empty Series.
ForExport(name) == IF name.defined THEN SeriesArg(name.s) ELSE SeriesArg(<<>>)

\* Lines 562-585: both calls stand outside any try.
ExportSection ==
    /\ pc = "export"
    /\ reached' = reached \cup {"export"}
    /\ \E m \in BuildMonthlyMaster(df_fred, ForExport(webkit), ForExport(wage_mfg)) :
          /\ master' = m
          /\ xlsx' = IF m.raised = "" THEN MakeExcelReport(m) ELSE xlsx
          /\ pc' = IF m.raised = "" /\ MakeExcelReport(m).raised = "" THEN "done" ELSE "aborted"
    /\ UNCHANGED <<response, fred, text, webkit, json_data, industry_contains,
                   item_contains, wage_mfg, df_fred, net>>

NextRender == Secrets \/ FredSection \/ WebkitSection \/ EstatSection \/ ExportSection

SpecRender == InitRender /\ [][NextRender]_vars

\* The sources that fail in this pass.
FredFails == net.copper # 200 \/ net.aluminum # 200 \/ net.usdjpy # 200
FreightFails == net.listing # "ok" \/ (net.listing = "ok" /\ net.pdf # 200)
LaborFails == net.ESTAT_APP_ID /\ (net.stats_list = "http_error"
                                   \/ (net.stats_list = "ok" /\ net.stats_data # 200))

FailedSources ==
    (IF FredFails THEN {"fred"} ELSE {})
    \cup (IF FreightFails THEN {"webkit"} ELSE {})
    \cup (IF LaborFails THEN {"estat"} ELSE {})

\* C4: in one render pass, a fetch or discovery failure of a single source
\* (price/FX, freight listing or PDF, labor statistics) is caught where it
\* is consumed: the pass still enters every other section and the export.
C4_OneFailureDoesNotStopThePass ==
    (pc \in {"done", "aborted"} /\ Cardinality(FailedSources) = 1) =>
        Sections \subseteq reached

====
